---- MODULE Spec2Model ----
(***************************************************************************)
(* Verification model of the snippets of the GFE notes:                    *)
(*   - the Promise polyfill          (polyfills.md, section 7.1)           *)
(*   - once / debounce / throttle / memoize  (closures.md)                 *)
(*   - createCounter / cycle         (closures.md)                         *)
(*   - sleep, setCancellableInterval, the chunk loop, negative indices,    *)
(*     useAsync                      (README.md)                           *)
(*   - the table component           (TableWithDynamicDimensions.tsx)      *)
(* Every snippet is a closed little program of its own, so each gets its   *)
(* own specification over its own variables; the other variables stay as   *)
(* Init left them.                                                         *)
(***************************************************************************)
EXTENDS Integers, Sequences, FiniteSets, TLC

VARIABLES
    promises,     \* the heap of Promise objects, in order of construction
    calls,        \* every invocation of a user callback passed to then/catch
    thrown,       \* what the last operation of user code threw to its caller
    ignored,      \* whether a resolve or reject call of the last operation found
                  \* its promise settled and returned at once: "none", "call",
                  \* or "catch" (the reject of the constructor's catch block)
    caught,       \* what the catch block of the constructor caught in the
                  \* last operation: <<err>>, or <<>> when nothing was thrown
    \* once(fn)
    executed,     \* the closure variable `executed`
    onceFn,       \* the invocations of fn: its arguments and what it did
    onceOut,      \* the calls of the returned function: arguments and outcome
    \* debounce(fn, delay)
    dDelay,       \* the delay debounce was given
    dNow,         \* the time, in ms
    timer,        \* the closure variable `timer` (0: undefined)
    timeouts,     \* the host's pending timeouts: [id, due, args]
    dNextId,      \* the id the next setTimeout returns
    dCalls,       \* the calls of the debounced function: [time, args]
    dFn,          \* the invocations of fn: [time, args, seen = calls made so far]
    \* throttle(fn, delay)
    tDelay,       \* the delay throttle was given
    tNow,         \* what Date.now() returns
    last,         \* the closure variable `last`
    tCalls,       \* the calls of the throttled function: [time, args, ran]
    tFn,          \* the invocations of fn: [time, args]
    \* memoize(fn)
    cache,        \* the own properties of the closure object `cache`
    mFn,          \* the invocations of fn: [arg, result]
    mOut,         \* the calls of the memoized function: [arg, result]
    \* cycle(...values), one closure per cycler
    values,       \* the closure variable `values` of each cycler
    index,        \* the closure variable `index` of each cycler
    cOut,         \* the calls of the cyclers, in order: [cycler, value]
    \* createCounter(), one closure per counter
    count,        \* the closure variable `count` of each counter
    kOut,         \* the calls of the counters, in order: [counter, value]
    \* setCancellableInterval(callback, delay, ...args)
    iDelay,       \* the delay the interval was set with, in ms
    iArgs,        \* the extra arguments the interval was set with
    iNow,         \* the time, in ms
    intervals,    \* the host's active intervals: [id, due, delay, args]
    cancels,      \* the times cancel() was called at, in order
    iFn,          \* the invocations of callback: [time, args]
    \* sleep(duration) and the program that uses it
    sDuration,    \* the duration greeting passes to sleep, in ms
    sNow,         \* the time, in ms
    sTimers,      \* the host's timers: [id, callback, due, repeat]
    sPromise,     \* the state of the promise sleep made ("none" before)
    sJobs,        \* the microtask queue
    greeting,     \* where greeting() is: "notCalled", "awaiting", "done"
    sLog,         \* what console.log printed: [time, text]
    \* useAsync(asyncFn, deps, immediate)
    immediate,    \* the argument `immediate`
    lifecycle,    \* the component: "rendered", "mounted", "unmounted"
    mounted,      \* mounted.current
    controller,   \* controller.current: "null" or "{}"
    uState,       \* the hook state: [loading, error, value]
    inflight,     \* the executions suspended at `await promise`
    uNextId,      \* the number of the next execution
    setStates,    \* the setState calls: [state, unmounted = made after unmount]
    \* the chunk loop
    array,        \* the array to chunk
    size,         \* the chunk size
    loopI,        \* the loop variable `i`
    ans,          \* the chunks pushed so far
    chunkPc,      \* "loop" while the for loop runs, "done" after it
    \* the handling of negative indices
    sz,           \* the size of the array
    start,        \* the variable `start`
    end,          \* the variable `end`
    given,        \* the start and end the caller passed: [start, end]
    indexPc,      \* "given" before the four assignments, "normalised" after
    \* the table component (TableWithDynamicDimensions.tsx)
    rows,         \* the state `rows`
    cols,         \* the state `cols`
    table,        \* the rendered <tbody>: the rows, each the texts of its cells
    typed         \* the last change event: the input it came from, "none" at first

promiseVars == <<promises, calls, thrown, ignored, caught>>
onceVars == <<executed, onceFn, onceOut>>
debounceVars == <<dDelay, dNow, timer, timeouts, dNextId, dCalls, dFn>>
throttleVars == <<tDelay, tNow, last, tCalls, tFn>>
memoizeVars == <<cache, mFn, mOut>>
cycleVars == <<values, index, cOut>>
counterVars == <<count, kOut>>
intervalVars == <<iDelay, iArgs, iNow, intervals, cancels, iFn>>
sleepVars == <<sDuration, sNow, sTimers, sPromise, sJobs, greeting, sLog>>
useAsyncVars == <<immediate, lifecycle, mounted, controller, uState, inflight, uNextId, setStates>>
chunkVars == <<array, size, loopI, ans, chunkPc>>
indexVars == <<sz, start, end, given, indexPc>>
tableVars == <<rows, cols, table, typed>>

vars == <<promiseVars, onceVars, debounceVars, throttleVars, memoizeVars,
    cycleVars, counterVars, intervalVars, sleepVars, useAsyncVars,
    chunkVars, indexVars, tableVars>>

\* a step of one snippet leaves the variables of the others alone
OnlyPromise == UNCHANGED <<onceVars, debounceVars, throttleVars,
    memoizeVars, cycleVars, counterVars, intervalVars, sleepVars,
    useAsyncVars, chunkVars, indexVars, tableVars>>
OnlyOnce == UNCHANGED <<promiseVars, debounceVars, throttleVars,
    memoizeVars, cycleVars, counterVars, intervalVars, sleepVars,
    useAsyncVars, chunkVars, indexVars, tableVars>>
OnlyDebounce == UNCHANGED <<promiseVars, onceVars, throttleVars,
    memoizeVars, cycleVars, counterVars, intervalVars, sleepVars,
    useAsyncVars, chunkVars, indexVars, tableVars>>
OnlyThrottle == UNCHANGED <<promiseVars, onceVars, debounceVars,
    memoizeVars, cycleVars, counterVars, intervalVars, sleepVars,
    useAsyncVars, chunkVars, indexVars, tableVars>>
OnlyMemoize == UNCHANGED <<promiseVars, onceVars, debounceVars,
    throttleVars, cycleVars, counterVars, intervalVars, sleepVars,
    useAsyncVars, chunkVars, indexVars, tableVars>>
OnlyCycle == UNCHANGED <<promiseVars, onceVars, debounceVars, throttleVars,
    memoizeVars, counterVars, intervalVars, sleepVars, useAsyncVars,
    chunkVars, indexVars, tableVars>>
OnlyCounter == UNCHANGED <<promiseVars, onceVars, debounceVars,
    throttleVars, memoizeVars, cycleVars, intervalVars, sleepVars,
    useAsyncVars, chunkVars, indexVars, tableVars>>
OnlyInterval == UNCHANGED <<promiseVars, onceVars, debounceVars,
    throttleVars, memoizeVars, cycleVars, counterVars, sleepVars,
    useAsyncVars, chunkVars, indexVars, tableVars>>
OnlySleep == UNCHANGED <<promiseVars, onceVars, debounceVars, throttleVars,
    memoizeVars, cycleVars, counterVars, intervalVars, useAsyncVars,
    chunkVars, indexVars, tableVars>>
OnlyUseAsync == UNCHANGED <<promiseVars, onceVars, debounceVars,
    throttleVars, memoizeVars, cycleVars, counterVars, intervalVars,
    sleepVars, chunkVars, indexVars, tableVars>>
OnlyChunk == UNCHANGED <<promiseVars, onceVars, debounceVars, throttleVars,
    memoizeVars, cycleVars, counterVars, intervalVars, sleepVars,
    useAsyncVars, indexVars, tableVars>>
OnlyIndex == UNCHANGED <<promiseVars, onceVars, debounceVars, throttleVars,
    memoizeVars, cycleVars, counterVars, intervalVars, sleepVars,
    useAsyncVars, chunkVars, tableVars>>
OnlyTable == UNCHANGED <<promiseVars, onceVars, debounceVars, throttleVars,
    memoizeVars, cycleVars, counterVars, intervalVars, sleepVars,
    useAsyncVars, chunkVars, indexVars>>

----------------------------------------------------------------------------
(* JavaScript values.  A value is a tagged pair, so that a plain value and *)
(* a reference to a Promise object are never confused.                     *)

Undefined == <<"undefined", 0>>
Val(n) == <<"value", n>>
Ref(p) == <<"promise", p>>
IsRef(v) == v[1] = "promise"

\* the promises that may be constructed in one run, and how many of them by
\* `new Promise` in user code (the others are made by then / catch)
MaxPromises == 4
MaxRoots == 2

\* the values user code passes to resolve / reject / throw
ExecVals == {Val(1), Val(2)}
\* the value a then-callback returns, and the error a then-callback throws
RetVal == Val(3)
ErrVal == Val(4)

----------------------------------------------------------------------------
(* User callbacks handed to then / catch.  `typeof cb === "function"` is   *)
(* false for NotFn (null, undefined, ...).  A function either returns a    *)
(* value (possibly a Promise object) or throws.                            *)

NotFn == [kind |-> "notfn", v |-> Undefined]
Returns(v) == [kind |-> "return", v |-> v]
Throws(v) == [kind |-> "throw", v |-> v]
IsFunction(cb) == cb.kind # "notfn"

(* function Promise(executor): the fields set at polyfills.md 262-264, and *)
(* what the model remembers about the object: the then call that made it   *)
(* (parent, onFulfilled, onRejected; parent = 0 for `new Promise` in user  *)
(* code), how often its executor was called, the first resolve or reject   *)
(* call made on it, and the handler methods the object has invoked so far  *)
(* (ran: which then call's handler, and which of its two methods).         *)
NewObject(parent, onF, onR) ==
    [ state       |-> "pending",
      value       |-> Undefined,
      handlers    |-> <<>>,
      parent      |-> parent,
      onFulfilled |-> onF,
      onRejected  |-> onR,
      executed    |-> 0,
      first       |-> <<"none", Undefined>>,
      ran         |-> <<>> ]

----------------------------------------------------------------------------
(* The polyfill.  `h` is the heap the code runs on: the Promise objects,   *)
(* the record of user-callback invocations, and the exception that     *)
(* escapes to the caller.  The code is synchronous throughout (no microtask queue), so one call of     *)
(* resolve runs every registered handler, and through them the resolve or  *)
(* reject of every promise chained behind, before it returns.              *)

RECURSIVE Settle(_, _, _, _)
RECURSIVE RunHandlers(_, _, _, _, _)
RECURSIVE RunProgram(_, _, _, _)

\* faulty variant: the guard of resolve / reject left out
CanSettleAlways(pr) == TRUE

\* `if (this.state !== "pending") return;`
CanSettle(pr) == pr.state = "pending"

\* a user callback is invoked with one argument
Invoke(h, c, which, arg) ==
    [h EXCEPT !.calls = Append(@, [handler |-> c, which |-> which, arg |-> arg])]

\* a method of the handler object of then call c is invoked by its promise
Fire(h, c, which) ==
    [h EXCEPT !.promises[h.promises[c].parent].ran =
                  Append(@, [handler |-> c, which |-> which])]

\* faulty variant: onFulfilled is called without the value
HandlerOnFulfilledNoArg(h, c, value) ==
    LET cb == h.promises[c].onFulfilled
        h0 == Fire(h, c, "onFulfilled")
    IN
    IF IsFunction(cb)
    THEN LET h1 == Invoke(h0, c, "onFulfilled", Undefined) IN
         IF cb.kind = "throw"
         THEN Settle(h1, c, "rejected", cb.v)
         ELSE Settle(h1, c, "fulfilled", cb.v)
    ELSE Settle(h0, c, "fulfilled", value)

\* handler.onFulfilled of the then call that made promise c
HandlerOnFulfilled(h, c, value) ==
    LET cb == h.promises[c].onFulfilled
        h0 == Fire(h, c, "onFulfilled")
    IN
    IF IsFunction(cb)
    THEN LET h1 == Invoke(h0, c, "onFulfilled", value) IN
         IF cb.kind = "throw"
         THEN Settle(h1, c, "rejected", cb.v)
         ELSE Settle(h1, c, "fulfilled", cb.v)
    ELSE Settle(h0, c, "fulfilled", value)

\* faulty variant: a rejection that meets no onRejected is passed on as a fulfilment
HandlerOnRejectedSwallows(h, c, err) ==
    LET cb == h.promises[c].onRejected
        h0 == Fire(h, c, "onRejected")
    IN
    IF IsFunction(cb)
    THEN LET h1 == Invoke(h0, c, "onRejected", err) IN
         IF cb.kind = "throw"
         THEN Settle(h1, c, "rejected", cb.v)
         ELSE Settle(h1, c, "fulfilled", cb.v)
    ELSE Settle(h0, c, "fulfilled", err)

\* handler.onRejected of the then call that made promise c
HandlerOnRejected(h, c, err) ==
    LET cb == h.promises[c].onRejected
        h0 == Fire(h, c, "onRejected")
    IN
    IF IsFunction(cb)
    THEN LET h1 == Invoke(h0, c, "onRejected", err) IN
         IF cb.kind = "throw"
         THEN Settle(h1, c, "rejected", cb.v)
         ELSE Settle(h1, c, "fulfilled", cb.v)
    ELSE Settle(h0, c, "rejected", err)

\* faulty variant: the handlers are left for a later turn of the event loop
RunHandlersLater(h, p, kind, v, i) == h

\* `this.handlers.forEach(h => h.onFulfilled(value))`, resp. h.onRejected(err)
RunHandlers(h, p, kind, v, i) ==
    IF i > Len(h.promises[p].handlers)
    THEN h
    ELSE LET c == h.promises[p].handlers[i] IN
         RunHandlers(IF kind = "fulfilled"
                     THEN HandlerOnFulfilled(h, c, v)
                     ELSE HandlerOnRejected(h, c, v),
                     p, kind, v, i + 1)

\* resolve (kind = "fulfilled") and reject (kind = "rejected") of promise p
Settle(h, p, kind, v) ==
    LET h0 == [h EXCEPT !.promises[p].first =
                            IF @[1] = "none" THEN <<kind, v>> ELSE @] IN
    IF ~CanSettle(h.promises[p])
    THEN [h0 EXCEPT !.ignored = "call"]
    ELSE RunHandlers([h0 EXCEPT !.promises[p].state = kind,
                                !.promises[p].value = v],
                     p, kind, v, 1)

Resolve(h, p, value) == Settle(h, p, "fulfilled", value)
Reject(h, p, err) == Settle(h, p, "rejected", err)

\* faulty variant: then only ever queues the handler, also on a settled promise
ThenExecutorQueuesOnly(h, c) ==
    [h EXCEPT !.promises[h.promises[c].parent].handlers = Append(@, c)]

\* faulty variant: `this.handlers.unshift(handler)`, the newest handler first
ThenExecutorUnshifts(h, c) ==
    LET this == h.promises[h.promises[c].parent] IN
    IF this.state = "pending"
    THEN [h EXCEPT !.promises[h.promises[c].parent].handlers = <<c>> \o @]
    ELSE IF this.state = "fulfilled"
         THEN HandlerOnFulfilled(h, c, this.value)
         ELSE HandlerOnRejected(h, c, this.value)

\* the executor `then` passes to new Promise, run for the new promise c
ThenExecutor(h, c) ==
    LET this == h.promises[h.promises[c].parent] IN
    IF this.state = "pending"
    THEN [h EXCEPT !.promises[h.promises[c].parent].handlers = Append(@, c)]
    ELSE IF this.state = "fulfilled"
         THEN HandlerOnFulfilled(h, c, this.value)
         ELSE HandlerOnRejected(h, c, this.value)

\* faulty variant: no try / catch around the executor, the error goes on
\* to the caller of the constructor
ConstructorRethrows(h, p, err) ==
    [h EXCEPT !.caught = <<err>>, !.thrown = "error"]

\* catch (err) { reject(err); }
ConstructorCatch(h, p, err) ==
    LET h1 == [h EXCEPT !.caught = <<err>>] IN
    IF CanSettle(h.promises[p])
    THEN Reject(h1, p, err)
    ELSE [Reject(h1, p, err) EXCEPT !.ignored = "catch"]

\* a user executor: a straight-line body of resolve(v) / reject(v) / throw v;
\* a throw leaves the body and lands in the constructor's catch
RunProgram(h, p, prog, i) ==
    IF i > Len(prog)
    THEN h
    ELSE IF prog[i][1] = "throw"
         THEN ConstructorCatch(h, p, prog[i][2])
         ELSE RunProgram(Settle(h, p, IF prog[i][1] = "resolve"
                                      THEN "fulfilled" ELSE "rejected",
                                prog[i][2]),
                         p, prog, i + 1)

\* faulty variant: the constructor stores the executor and never calls it
CallExecutorNever(h, p, ex) == h

\* try { executor(resolve, reject); } catch (err) { reject(err); }
CallExecutor(h, p, ex) ==
    LET h1 == [h EXCEPT !.promises[p].executed = @ + 1] IN
    IF ex.kind = "then"
    THEN ThenExecutor(h1, p)
    ELSE RunProgram(h1, p, ex.prog, 1)

\* function Promise(executor), called with new
PromiseCtor(h, ex, parent, onF, onR) ==
    IF ex.kind = "notfn"
    THEN [h EXCEPT !.thrown = "TypeError"]
    ELSE CallExecutor([h EXCEPT !.promises = Append(@, NewObject(parent, onF, onR))],
                      Len(h.promises) + 1, ex)

\* Promise.prototype.then
PromiseThen(h, p, onF, onR) == PromiseCtor(h, [kind |-> "then"], p, onF, onR)

\* Promise.prototype.catch
PromiseCatch(h, p, onR) == PromiseThen(h, p, NotFn, onR)

----------------------------------------------------------------------------
(* What user code does with the polyfill.                                  *)

\* the heap an operation starts on (nothing thrown yet) and the one it leaves
Heap ==
    [promises |-> promises, calls |-> calls, thrown |-> "none",
     ignored |-> "none", caught |-> <<>>]
SetHeap(h) ==
    /\ ignored' = h.ignored
    /\ caught' = h.caught
    /\ promises' = h.promises
    /\ calls' = h.calls
    /\ thrown' = h.thrown

Ids == 1..Len(promises)
Roots == {p \in Ids : promises[p].parent = 0}

\* the statements of a user executor
MaxExecOps == 2
ExecOps == {"resolve", "reject", "throw"} \X ExecVals
Programs ==
    UNION {[1..n -> ExecOps] : n \in 0..MaxExecOps}
Executors ==
    {[kind |-> "notfn"]} \cup {[kind |-> "user", prog |-> pr] : pr \in Programs}

\* the (onFulfilled, onRejected) pairs user code passes to then, and the
\* onRejected it passes to catch
ThenArgs ==
    {<<Returns(RetVal), NotFn>>, <<Throws(ErrVal), NotFn>>,
     <<Returns(RetVal), Throws(ErrVal)>>}
        \cup {<<Returns(Ref(q)), NotFn>> : q \in Roots}
CatchArgs == {Returns(RetVal), Throws(ErrVal)}

InitPromise ==
    /\ promises = <<>>
    /\ calls = <<>>
    /\ thrown = "none"
    /\ ignored = "none"
    /\ caught = <<>>

\* new Promise(executor) in user code
NewPromise ==
    /\ Len(promises) < MaxPromises
    /\ Cardinality(Roots) < MaxRoots
    /\ \E ex \in Executors : SetHeap(PromiseCtor(Heap, ex, 0, NotFn, NotFn))
    /\ OnlyPromise

\* p.then(onFulfilled, onRejected)
Then ==
    /\ Len(promises) < MaxPromises
    /\ \E p \in Ids, a \in ThenArgs :
          SetHeap(PromiseThen(Heap, p, a[1], a[2]))
    /\ OnlyPromise

\* p.catch(onRejected)
Catch ==
    /\ Len(promises) < MaxPromises
    /\ \E p \in Ids, onR \in CatchArgs :
          SetHeap(PromiseCatch(Heap, p, onR))
    /\ OnlyPromise

\* the resolve an executor was given, called after the constructor returned
\* (from a timer, an event, ...)
LateResolve ==
    /\ \E p \in Roots, v \in ExecVals \cup {Ref(q) : q \in Roots} :
          SetHeap(Resolve(Heap, p, v))
    /\ OnlyPromise

\* the reject an executor was given, called after the constructor returned
LateReject ==
    /\ \E p \in Roots, v \in ExecVals :
          SetHeap(Reject(Heap, p, v))
    /\ OnlyPromise

NextPromise ==
    \/ NewPromise
    \/ Then
    \/ Catch
    \/ LateResolve
    \/ LateReject

----------------------------------------------------------------------------
(* Properties of the Promise polyfill.                                     *)

Parent(c) == promises[c].parent
Children(p) == {c \in Ids : Parent(c) = p}
\* the then calls made on p while it was pending
Queued(p) == {promises[p].handlers[i] : i \in 1..Len(promises[p].handlers)}
\* the invocations of one callback of the then call that made c
Called(c, which) ==
    {i \in 1..Len(calls) : calls[i].handler = c /\ calls[i].which = which}
CalledWith(c, which, v) ==
    /\ Called(c, which) # {}
    /\ \A i \in Called(c, which) : calls[i].arg = v
CalledOnceWith(c, which, v) ==
    /\ Cardinality(Called(c, which)) = 1
    /\ \A i \in Called(c, which) : calls[i].arg = v

\* state and value are those the first resolve / reject call gave the promise
C1_FirstCallDecides ==
    \A p \in Ids :
        IF promises[p].first[1] = "none"
        THEN promises[p].state = "pending" /\ promises[p].value = Undefined
        ELSE /\ promises[p].state = promises[p].first[1]
             /\ promises[p].value = promises[p].first[2]
\* a step leaves the state and value of a settled promise as they are
C1_SettledStays ==
    \A p \in Ids :
        promises[p].state # "pending" =>
            /\ promises'[p].state = promises[p].state
            /\ promises'[p].value = promises[p].value

\* C1: a promise settles at most once.  Its state and value are those of the
\* first resolve / reject call made on it (none: pending, undefined), also
\* after a second call in the executor or a throw behind a resolve; and no
\* step changes the state or the value of a promise that has left pending.
C1_SettlesAtMostOnce == [](C1_FirstCallDecides) /\ [][C1_SettledStays]_vars

\* a promise whose executor threw behind its resolve, after another promise
\* had been rejected
C1_Witness ==
    /\ ignored = "catch"
    /\ Len(promises) = 2
    /\ promises[1].state = "rejected"
    /\ promises[2].state = "fulfilled"

\* C2: when the first settling call on p is resolve(v), every onFulfilled
\* passed to p.then, before or after the settlement, is called with v and no
\* onRejected is called; when it is reject(e), every onRejected is called with
\* e and no onFulfilled is called.
C2_ValueReachesHandlers ==
    \A p \in Ids : \A c \in Children(p) :
        /\ promises[p].first[1] = "fulfilled" =>
              /\ IsFunction(promises[c].onFulfilled) =>
                    CalledWith(c, "onFulfilled", promises[p].first[2])
              /\ Called(c, "onRejected") = {}
        /\ promises[p].first[1] = "rejected" =>
              /\ IsFunction(promises[c].onRejected) =>
                    CalledWith(c, "onRejected", promises[p].first[2])
              /\ Called(c, "onFulfilled") = {}

\* p fulfilled, with a then(f, r) made before and a then(f) made after it settled
C2_Witness ==
    \E p \in Roots : \E c1, c2 \in Children(p) :
        /\ promises[p].state = "fulfilled"
        /\ c1 \in Queued(p) /\ c2 \notin Queued(p)
        /\ IsFunction(promises[c1].onFulfilled)
        /\ IsFunction(promises[c1].onRejected)
        /\ IsFunction(promises[c2].onFulfilled)
        /\ Called(c1, "onFulfilled") # {} /\ Called(c2, "onFulfilled") # {}

\* C3: in p.then(f).then(g), with p fulfilled with v and f returning w, f is
\* called with v and g is called with w, whether the thens were made before or
\* after p settled.
C3_ChainPassesReturnValue ==
    \A c1, c2 \in Ids :
        ( /\ Parent(c2) = c1
          /\ Parent(c1) # 0
          /\ promises[Parent(c1)].state = "fulfilled"
          /\ promises[c1].onFulfilled.kind = "return"
          /\ IsFunction(promises[c2].onFulfilled) )
        => /\ CalledWith(c1, "onFulfilled", promises[Parent(c1)].value)
           /\ CalledWith(c2, "onFulfilled", promises[c1].onFulfilled.v)

\* then(f) made while p was pending, then(g) made after p had settled
C3_Witness ==
    \E c1, c2 \in Ids :
        /\ Parent(c2) = c1
        /\ Parent(c1) \in Roots
        /\ c1 \in Queued(Parent(c1))
        /\ c2 \notin Queued(c1)
        /\ promises[Parent(c1)].state = "fulfilled"
        /\ promises[c1].onFulfilled = Returns(RetVal)
        /\ Called(c2, "onFulfilled") # {}

\* a then call with an onFulfilled only, and a catch call
IsPlainThen(c) ==
    /\ Parent(c) # 0
    /\ IsFunction(promises[c].onFulfilled)
    /\ ~IsFunction(promises[c].onRejected)
IsCatch(d) ==
    /\ Parent(d) # 0
    /\ ~IsFunction(promises[d].onFulfilled)
    /\ IsFunction(promises[d].onRejected)

\* the promises then(f1), ..., then(fn) in front of promise a, a's own then
\* first: ch[1] = a, ch[2] = the promise a's then was called on, ...
RECURSIVE ThenChain(_)
ThenChain(a) ==
    IF IsPlainThen(a) THEN <<a>> \o ThenChain(Parent(a)) ELSE <<>>

\* C4: in p.then(f1)...then(fn).catch(h), with no onRejected passed to the
\* thens: if p is rejected with e, h is called exactly once with e and no fi
\* is called; if some fi throws e, h is called exactly once with e and no fj
\* behind fi is called.
C4_CatchAtEndCatches ==
    \A d \in Ids :
        IsCatch(d) =>
            LET ch == ThenChain(Parent(d)) IN
            /\ \A k \in 0..Len(ch) :
                  LET p == IF k = 0 THEN Parent(d) ELSE Parent(ch[k]) IN
                  promises[p].state = "rejected" =>
                      /\ CalledOnceWith(d, "onRejected", promises[p].value)
                      /\ \A j \in 1..k : Called(ch[j], "onFulfilled") = {}
            /\ \A i \in 1..Len(ch) :
                  ( /\ Called(ch[i], "onFulfilled") # {}
                    /\ promises[ch[i]].onFulfilled.kind = "throw" )
                  => /\ CalledOnceWith(d, "onRejected", promises[ch[i]].onFulfilled.v)
                     /\ \A j \in 1..(i - 1) : Called(ch[j], "onFulfilled") = {}

\* p.then(f1).then(f2).catch(h) where f1 threw: f2 skipped, h called
C4_Witness ==
    \E d \in Ids :
        /\ IsCatch(d)
        /\ Len(ThenChain(Parent(d))) = 2
        /\ promises[ThenChain(Parent(d))[2]].onFulfilled.kind = "throw"
        /\ Called(ThenChain(Parent(d))[2], "onFulfilled") # {}
        /\ Called(d, "onRejected") # {}

\* p.then(f1).then(f2).catch(h) where p was rejected after the chain was built
C4_WitnessRejected ==
    \E d \in Ids :
        /\ IsCatch(d)
        /\ Len(ThenChain(Parent(d))) = 2
        /\ promises[Parent(ThenChain(Parent(d))[2])].state = "rejected"
        /\ d \in Queued(Parent(d))
        /\ Called(d, "onRejected") # {}

\* C5: a promise that is resolved with a promise q (by its executor's resolve
\* or by the return value of its then handler) stays pending while q is
\* pending and then has q's state and value; no callback is ever called with
\* a promise object.
C5_AdoptsReturnedPromise ==
    /\ \A c \in Ids :
          ( promises[c].first[1] = "fulfilled" /\ IsRef(promises[c].first[2]) )
          => LET q == promises[promises[c].first[2][2]] IN
             IF q.state = "pending"
             THEN promises[c].state = "pending"
             ELSE promises[c].state = q.state /\ promises[c].value = q.value
    /\ \A i \in 1..Len(calls) : ~IsRef(calls[i].arg)

\* every promise there is has had its executor called exactly once
C6_ExecutedOnce ==
    \A p \in Ids : promises[p].executed = 1
\* the step that constructs a promise is the step that calls its executor
C6_RunsInConstructor ==
    Len(promises') > Len(promises) =>
        /\ Len(promises') = Len(promises) + 1
        /\ promises'[Len(promises')].executed = 1
        /\ promises'[Len(promises')].parent = 0 =>
              /\ calls' = calls
              /\ \A q \in Ids : promises'[q] = promises[q]

\* C6: new Promise(executor) has called executor exactly once when it returns:
\* every promise there is has had its executor run once, every step that
\* constructs a promise runs the executor in that same step, and a user
\* executor was handed the functions of the new promise (no other changes).
C6_ExecutorRunsImmediately == [](C6_ExecutedOnce) /\ [][C6_RunsInConstructor]_vars

\* the first promise, fulfilled by an executor that went on to call resolve or
\* reject once more
C6_Witness ==
    /\ Len(promises) = 1
    /\ promises[1].executed = 1
    /\ promises[1].state = "fulfilled"
    /\ ignored = "call"

\* the handler method `which` of then call c was invoked by p in this step
FiredInStep(p, c, which) ==
    \E k \in (Len(promises[p].ran) + 1)..Len(promises'[p].ran) :
        promises'[p].ran[k] = [handler |-> c, which |-> which]
\* the user callback `which` of then call c was invoked with v in this step
InvokedInStep(c, which, v) ==
    \E k \in (Len(calls) + 1)..Len(calls') :
        calls'[k] = [handler |-> c, which |-> which, arg |-> v]
\* the handler method a promise in that state invokes
MethodFor(state) ==
    IF state = "fulfilled" THEN "onFulfilled" ELSE "onRejected"
\* the handler of then call c is run, callback included, in this step
RunsInStep(p, c, state, v) ==
    /\ FiredInStep(p, c, MethodFor(state))
    /\ IsFunction(promises'[c][MethodFor(state)]) =>
          InvokedInStep(c, MethodFor(state), v)

\* C18: there is no microtask queue.  A then call on a settled promise
\* invokes its callback before it returns, and the resolve or reject call
\* that settles a promise invokes the callbacks registered while it was
\* pending before it returns: in the model, within the same step.
C18_Synchronous ==
    [][/\ Len(promises') = Len(promises) + 1 =>
            LET c == Len(promises')
                p == promises'[c].parent
            IN (p # 0 /\ promises[p].state # "pending") =>
                   RunsInStep(p, c, promises[p].state, promises[p].value)
       /\ \A p \in Ids :
            (promises[p].state = "pending" /\ promises'[p].state # "pending")
                => \A c \in Queued(p) :
                       RunsInStep(p, c, promises'[p].state,
                                  promises'[p].value)
      ]_vars

\* a root promise got one then call while pending and one after it was
\* settled by a late resolve or reject, and the callbacks of both have run
C18_Witness ==
    \E p \in Roots : \E c \in Children(p), d \in Children(p) :
        /\ promises[p].state # "pending"
        /\ d \in Queued(p)
        /\ c \notin Queued(p)
        /\ Called(d, MethodFor(promises[p].state)) # {}
        /\ Called(c, MethodFor(promises[p].state)) # {}

\* the user callback an invocation of the record `calls` ran
CallbackOf(call) == promises[call.handler][call.which]

\* C19: an error e thrown by the executor while its promise is pending
\* rejects the promise with e and does not leave the constructor; an error
\* e thrown by an onFulfilled or onRejected callback rejects the promise
\* its then call returned with e.
C19_ThrowRejects ==
    /\ (caught # <<>> /\ ignored # "catch") =>
          /\ thrown = "none"
          /\ promises[Len(promises)].state = "rejected"
          /\ promises[Len(promises)].value = caught[1]
    /\ \A k \in 1..Len(calls) :
          CallbackOf(calls[k]).kind = "throw" =>
              /\ promises[calls[k].handler].state = "rejected"
              /\ promises[calls[k].handler].value = CallbackOf(calls[k]).v

\* a throwing onFulfilled and a throwing onRejected have both run, and the
\* executor of the promise made last threw before settling it
C19_Witness ==
    /\ caught # <<>>
    /\ ignored = "none"
    /\ promises[Len(promises)].parent = 0
    /\ promises[Len(promises)].first = <<"rejected", caught[1]>>
    /\ \E j \in 1..Len(calls), k \in 1..Len(calls) :
          /\ calls[j].which = "onFulfilled"
          /\ CallbackOf(calls[j]).kind = "throw"
          /\ calls[k].which = "onRejected"
          /\ CallbackOf(calls[k]).kind = "throw"

\* the invocations, by promise p, of a handler method of then call c
Fired(p, c) ==
    {k \in 1..Len(promises[p].ran) : promises[p].ran[k].handler = c}
\* the invocations of the user callbacks of then call c
Invocations(c) == Called(c, "onFulfilled") \cup Called(c, "onRejected")

\* C20: whatever the order of the then calls and the settling call, every
\* then call gets exactly one invocation of its handler, and that of the
\* method matching the outcome (none while the promise is pending): never
\* both callbacks, never one twice.  The handlers registered while the
\* promise was pending run in the order of their registration, which is
\* the order in which the then calls made their promises.
C20_OncePerThen ==
    \A p \in Ids :
        /\ \A c \in Children(p) :
            /\ Cardinality(Fired(p, c)) =
                   IF promises[p].state = "pending" THEN 0 ELSE 1
            /\ \A k \in Fired(p, c) :
                   promises[p].ran[k].which = MethodFor(promises[p].state)
            /\ Cardinality(Invocations(c)) <= 1
            /\ Cardinality(Invocations(c)) = 1 <=>
                   /\ promises[p].state # "pending"
                   /\ IsFunction(promises[c][MethodFor(promises[p].state)])
            /\ \A k \in Invocations(c) :
                   calls[k].which = MethodFor(promises[p].state)
        /\ \A j \in 1..Len(promises[p].ran), k \in 1..Len(promises[p].ran) :
              (/\ j < k
               /\ promises[p].ran[j].handler \in Queued(p)
               /\ promises[p].ran[k].handler \in Queued(p))
                  => promises[p].ran[j].handler < promises[p].ran[k].handler
        /\ \A c \in Queued(p), d \in Queued(p) :
              \A j \in Invocations(c), k \in Invocations(d) :
                  c < d => j < k

\* a promise settled with two then calls waiting, one more was made after,
\* and the callbacks of the two that waited have both been invoked
C20_Witness ==
    \E p \in Ids :
        /\ promises[p].state # "pending"
        /\ Len(promises[p].handlers) = 2
        /\ Len(promises[p].ran) = 3
        /\ \A c \in Queued(p) : Invocations(c) # {}

----------------------------------------------------------------------------
(* once(fn), closures.md.  fn is any function: what an invocation of it    *)
(* does (return a value, throw) is an input of the call that invokes it.   *)

MaxOnceCalls == 3
OnceArgs == {Val(1), Val(2), Val(3)}
FnOutcomes == {<<"return", Val(1)>>, <<"return", Val(2)>>, <<"throw", ErrVal>>}

InitOnce ==
    /\ executed = FALSE
    /\ onceFn = <<>>
    /\ onceOut = <<>>

\* faulty variant: executed is set only behind the call of fn, so not when fn throws
OnceWrapperSetsAfter(st, args, fnDoes) ==
    IF ~st.executed
    THEN [ executed |-> fnDoes[1] = "return",
           onceFn   |-> Append(st.onceFn, [args |-> args, did |-> fnDoes]),
           onceOut  |-> Append(st.onceOut, [args |-> args, out |-> fnDoes]) ]
    ELSE [st EXCEPT !.onceOut =
                        Append(@, [args |-> args, out |-> <<"return", Undefined>>])]

\* the function once returns, called with args; fnDoes is what fn does if invoked
OnceWrapper(st, args, fnDoes) ==
    IF ~st.executed
    THEN [ executed |-> TRUE,
           onceFn   |-> Append(st.onceFn, [args |-> args, did |-> fnDoes]),
           onceOut  |-> Append(st.onceOut, [args |-> args, out |-> fnDoes]) ]
    ELSE [st EXCEPT !.onceOut =
                        Append(@, [args |-> args, out |-> <<"return", Undefined>>])]

OnceCall ==
    /\ Len(onceOut) < MaxOnceCalls
    /\ \E args \in OnceArgs, fnDoes \in FnOutcomes :
          LET st == OnceWrapper([executed |-> executed, onceFn |-> onceFn,
                                 onceOut |-> onceOut], args, fnDoes) IN
          /\ executed' = st.executed
          /\ onceFn' = st.onceFn
          /\ onceOut' = st.onceOut
    /\ OnlyOnce

NextOnce == OnceCall

\* C7: fn is invoked at most once, by the first call, with that call's
\* arguments, and that call returns what fn returns (or throws what fn
\* throws); every later call returns undefined, also when fn threw.
C7_RunsOnlyOnce ==
    /\ Len(onceFn) <= 1
    /\ Len(onceOut) >= 1 =>
          /\ Len(onceFn) = 1
          /\ onceFn[1].args = onceOut[1].args
          /\ onceOut[1].out = onceFn[1].did
    /\ \A i \in 2..Len(onceOut) : onceOut[i].out = <<"return", Undefined>>

\* fn threw in the first call, and the function was called twice more
C7_Witness ==
    /\ Len(onceOut) = 3
    /\ onceFn[1].did[1] = "throw"
    /\ onceOut[2].args # onceOut[1].args

----------------------------------------------------------------------------
(* debounce(fn, delay), closures.md.  The host keeps the pending timeouts; *)
(* a timeout fires when its time has come, possibly late, never early.     *)

MaxDelay == 2
MaxTime == 4
MaxDebounceCalls == 3
DebounceArgs == {Val(1), Val(2)}

InitDebounce ==
    /\ dDelay \in 0..MaxDelay
    /\ dNow = 0
    /\ timer = 0
    /\ timeouts = {}
    /\ dNextId = 1
    /\ dCalls = <<>>
    /\ dFn = <<>>

IdleDebounce == InitDebounce /\ dDelay = 0

\* faulty variant: the pending timeout is not cleared
ClearTimeoutForgotten(pending, id) == pending

\* clearTimeout(id): no effect when id is undefined or no longer pending
ClearTimeout(pending, id) == {t \in pending : t.id # id}

\* setTimeout(() => fn(...args), delay), returning id
SetTimeout(pending, id, args, delay, now) ==
    pending \cup {[id |-> id, due |-> now + delay, args |-> args]}

\* the function debounce returns, called with args
DebouncedCall ==
    /\ Len(dCalls) < MaxDebounceCalls
    /\ \E args \in DebounceArgs :
          /\ timeouts' = SetTimeout(ClearTimeout(timeouts, timer), dNextId,
                                    args, dDelay, dNow)
          /\ dCalls' = Append(dCalls, [time |-> dNow, args |-> args])
    /\ timer' = dNextId
    /\ dNextId' = dNextId + 1
    /\ UNCHANGED <<dDelay, dNow, dFn>>
    /\ OnlyDebounce

\* a timeout fires: () => fn(...args)
TimeoutFires ==
    /\ \E t \in timeouts :
          /\ t.due <= dNow
          /\ timeouts' = timeouts \ {t}
          /\ dFn' = Append(dFn, [time |-> dNow, args |-> t.args,
                                 seen |-> Len(dCalls)])
    /\ UNCHANGED <<dDelay, dNow, timer, dNextId, dCalls>>
    /\ OnlyDebounce

\* a millisecond passes
DebounceTick ==
    /\ dNow < MaxTime
    /\ dNow' = dNow + 1
    /\ UNCHANGED <<dDelay, timer, timeouts, dNextId, dCalls, dFn>>
    /\ OnlyDebounce

NextDebounce ==
    \/ DebouncedCall
    \/ TimeoutFires
    \/ DebounceTick

\* C8: fn is invoked only when delay ms have passed since the most recent
\* call of the debounced function, with the arguments of that call, and at
\* most once for it; at most one timeout is pending, and exactly one, due
\* delay ms after the most recent call, as long as fn was not invoked for it.
C8_Debounced ==
    /\ Cardinality(timeouts) <= 1
    /\ \A i \in 1..Len(dFn) :
          /\ dFn[i].seen >= 1
          /\ dFn[i].time >= dCalls[dFn[i].seen].time + dDelay
          /\ dFn[i].args = dCalls[dFn[i].seen].args
          /\ \A j \in 1..Len(dFn) : dFn[j].seen = dFn[i].seen => j = i
    /\ ( Len(dCalls) >= 1 /\ \A i \in 1..Len(dFn) : dFn[i].seen # Len(dCalls) )
       => timeouts = {[id |-> timer,
                       due |-> dCalls[Len(dCalls)].time + dDelay,
                       args |-> dCalls[Len(dCalls)].args]}

\* a call was superseded by a later one with other arguments before its
\* delay was over, and fn ran for the later one only
C8_Witness ==
    /\ dDelay >= 1
    /\ Len(dCalls) = 2
    /\ dCalls[1].args # dCalls[2].args
    /\ dCalls[2].time < dCalls[1].time + dDelay
    /\ Len(dFn) = 1
    /\ dFn[1].args = dCalls[2].args

----------------------------------------------------------------------------
(* throttle(fn, delay), closures.md.  Date.now() never goes back; the      *)
(* model starts the clock anywhere from 0 on.                              *)

MaxThrottleDelay == 3
MaxClock == 5
MaxThrottleCalls == 3
ThrottleArgs == {Val(1), Val(2)}

InitThrottle ==
    /\ tDelay \in 0..MaxThrottleDelay
    /\ tNow \in 0..1
    /\ last = 0
    /\ tCalls = <<>>
    /\ tFn = <<>>

IdleThrottle == InitThrottle /\ tDelay = 0 /\ tNow = 0

\* faulty variant: `last = now` left out
ThrottledWrapperKeepsLast(st, now, args) ==
    IF now - st.last >= st.delay
    THEN [ st EXCEPT !.tFn = Append(@, [time |-> now, args |-> args]),
                     !.ran = TRUE ]
    ELSE [st EXCEPT !.ran = FALSE]

\* the function throttle returns, called with args when Date.now() is now
ThrottledWrapper(st, now, args) ==
    IF now - st.last >= st.delay
    THEN [ st EXCEPT !.last = now,
                     !.tFn = Append(@, [time |-> now, args |-> args]),
                     !.ran = TRUE ]
    ELSE [st EXCEPT !.ran = FALSE]

ThrottledCall ==
    /\ Len(tCalls) < MaxThrottleCalls
    /\ \E args \in ThrottleArgs :
          LET st == ThrottledWrapper([last |-> last, delay |-> tDelay, tFn |-> tFn,
                                      ran |-> FALSE], tNow, args) IN
          /\ last' = st.last
          /\ tFn' = st.tFn
          /\ tCalls' = Append(tCalls, [time |-> tNow, args |-> args, ran |-> st.ran])
    /\ UNCHANGED <<tDelay, tNow>>
    /\ OnlyThrottle

\* the clock advances
ThrottleTick ==
    /\ tNow < MaxClock
    /\ tNow' = tNow + 1
    /\ UNCHANGED <<tDelay, last, tCalls, tFn>>
    /\ OnlyThrottle

NextThrottle ==
    \/ ThrottledCall
    \/ ThrottleTick

\* the calls before call i that invoked fn
RanBefore(i) == {j \in 1..(i - 1) : tCalls[j].ran}
Max(S) == CHOOSE x \in S : \A y \in S : y <= x

\* C9: a call invokes fn iff at least delay ms have passed since the last call
\* that invoked fn; the first call invokes fn when the clock is >= delay; two
\* invocations of fn are at least delay ms apart; fn runs inside the call that
\* invokes it, with its arguments, and the other calls are dropped.
C9_Throttled ==
    /\ \A i \in 1..Len(tCalls) :
          IF RanBefore(i) # {}
          THEN tCalls[i].ran <=>
                   tCalls[i].time - tCalls[Max(RanBefore(i))].time >= tDelay
          ELSE tCalls[i].time >= tDelay => tCalls[i].ran
    /\ \A i, j \in 1..Len(tFn) : i < j => tFn[j].time - tFn[i].time >= tDelay
    /\ Len(tFn) = Cardinality({i \in 1..Len(tCalls) : tCalls[i].ran})
    /\ \A i \in 1..Len(tCalls) :
          tCalls[i].ran =>
              tFn[Cardinality(RanBefore(i)) + 1] =
                  [time |-> tCalls[i].time, args |-> tCalls[i].args]

\* fn ran, a call inside the window was dropped, a call after it ran fn again
C9_Witness ==
    /\ tDelay >= 2
    /\ Len(tCalls) = 3
    /\ tCalls[1].ran /\ ~tCalls[2].ran /\ tCalls[3].ran
    /\ tCalls[2].time > tCalls[1].time

----------------------------------------------------------------------------
(* memoize(fn), closures.md.  cache is a plain object: cache[n] converts n *)
(* to a property key and looks the key up in the object and then in        *)
(* Object.prototype; `if (cache[n])` tests the truthiness of what it finds.*)

Num(n) == <<"number", n>>
\* the strings of the model, by index: '', '1', 'toString'
Strings == <<"", "1", "toString">>
Str(i) == <<"string", i>>
False == <<"boolean", 0>>
Null == <<"null", 0>>
Builtin == <<"function", 0>>

\* ToBoolean
Truthy(v) ==
    CASE v[1] \in {"undefined", "null"} -> FALSE
      [] v[1] = "boolean" -> v[2] = 1
      [] v[1] = "number" -> v[2] # 0
      [] v[1] = "string" -> Strings[v[2]] # ""
      [] OTHER -> TRUE

\* ToPropertyKey, for the numbers 0..2 and the strings of the model
ToPropertyKey(v) ==
    IF v[1] = "number" THEN <<"0", "1", "2">>[v[2] + 1] ELSE Strings[v[2]]

\* the properties a plain object inherits from Object.prototype
ObjectPrototype == {"toString"}

\* cache[n]
CacheGet(own, n) ==
    LET key == ToPropertyKey(n) IN
    IF key \in DOMAIN own THEN own[key]
    ELSE IF key \in ObjectPrototype THEN Builtin
    ELSE Undefined

\* cache[n] = result
CacheSet(own, n, result) ==
    LET key == ToPropertyKey(n) IN
    [k \in DOMAIN own \cup {key} |-> IF k = key THEN result ELSE own[k]]

MaxMemoCalls == 3
MemoArgs == {Num(0), Num(1), Num(2)}
MemoResults == {Num(0), Num(1), Str(1), False, Null, Undefined}

InitMemoize ==
    /\ cache = <<>>
    /\ mFn = <<>>
    /\ mOut = <<>>

\* the function memoize returns, called with n; fnReturns is what fn returns
\* if invoked
MemoizedWrapper(st, n, fnReturns) ==
    IF Truthy(CacheGet(st.cache, n))
    THEN [st EXCEPT !.mOut = Append(@, [arg |-> n, result |-> CacheGet(st.cache, n)])]
    ELSE [ cache |-> CacheSet(st.cache, n, fnReturns),
           mFn   |-> Append(st.mFn, [arg |-> n, result |-> fnReturns]),
           mOut  |-> Append(st.mOut, [arg |-> n, result |-> fnReturns]) ]

MemoizedCall ==
    /\ Len(mOut) < MaxMemoCalls
    /\ \E n \in MemoArgs, fnReturns \in MemoResults :
          LET st == MemoizedWrapper([cache |-> cache, mFn |-> mFn, mOut |-> mOut],
                                    n, fnReturns) IN
          /\ cache' = st.cache
          /\ mFn' = st.mFn
          /\ mOut' = st.mOut
    /\ OnlyMemoize

NextMemoize == MemoizedCall

\* C10: fn is invoked at most once for each argument, and every call with
\* argument n returns what fn returned when it was first invoked with n,
\* whatever that value is.
C10_CachesEveryResult ==
    /\ \A i, j \in 1..Len(mFn) : mFn[i].arg = mFn[j].arg => i = j
    /\ \A i \in 1..Len(mOut) :
          \E k \in 1..Len(mFn) :
              /\ mFn[k].arg = mOut[i].arg
              /\ \A k2 \in 1..(k - 1) : mFn[k2].arg # mOut[i].arg
              /\ mOut[i].result = mFn[k].result

----------------------------------------------------------------------------
(* cycle(...values), closures.md.  Every call of cycle makes a closure     *)
(* with an `index` of its own; the model keeps two of them side by side.   *)

MaxCycleLen == 3
MaxCycleCalls == 5

Cyclers == {1, 2}
CycleVals == {Val(1), Val(2)}

\* the argument lists cycle is called with: at least one value
CycleArgs ==
    UNION { [1..n -> CycleVals] : n \in 1..MaxCycleLen }

\* const c = cycle(...args), for every cycler
InitCycle ==
    /\ values \in [Cyclers -> CycleArgs]
    /\ index = [c \in Cyclers |-> 0]
    /\ cOut = <<>>

IdleCycle ==
    /\ values = [c \in Cyclers |-> <<Val(1)>>]
    /\ index = [c \in Cyclers |-> 0]
    /\ cOut = <<>>

\* values[index] of a JavaScript array (index counts from 0)
ArrayGet(arr, i) ==
    IF i + 1 \in DOMAIN arr THEN arr[i + 1] ELSE Undefined

\* faulty variant: the index is not wrapped around
CyclerNoWrap(vals, idx) ==
    [currentValue |-> ArrayGet(vals, idx), index |-> idx + 1]

\* the returned arrow function: the value it returns and the new index
Cycler(vals, idx) ==
    [currentValue |-> ArrayGet(vals, idx),
     index |-> (idx + 1) % Len(vals)]

\* c()
CyclerCall(c) ==
    /\ Len(cOut) < MaxCycleCalls
    /\ LET r == Cycler(values[c], index[c]) IN
        /\ index' = [index EXCEPT ![c] = r.index]
        /\ cOut' = Append(cOut, [cycler |-> c, value |-> r.currentValue])
    /\ UNCHANGED values
    /\ OnlyCycle

NextCycle == \E c \in Cyclers : CyclerCall(c)

\* the values cycler c has returned so far, in order
Returned(c) ==
    LET Mine(e) == e.cycler = c
        mine == SelectSeq(cOut, Mine)
    IN [k \in 1..Len(mine) |-> mine[k].value]

\* C11: the k-th call of a cycler (k = 0, 1, 2, ...) returns value number
\* k mod n of its n values, its index stays within 0..n-1, and the calls of
\* the other cycler change nothing about that.
C11_Cycles ==
    \A c \in Cyclers :
        /\ index[c] \in 0..(Len(values[c]) - 1)
        /\ index[c] = Len(Returned(c)) % Len(values[c])
        /\ \A k \in 0..(Len(Returned(c)) - 1) :
              Returned(c)[k + 1] = values[c][(k % Len(values[c])) + 1]

\* cycler 1 went round its two different values and started again while
\* cycler 2, with other values, was called in between
C11_Witness ==
    /\ Len(values[1]) = 2
    /\ values[1][1] # values[1][2]
    /\ values[2] # values[1]
    /\ Len(Returned(1)) = 3
    /\ Len(Returned(2)) = 2
    /\ cOut[1].cycler = 1
    /\ cOut[2].cycler = 2
    /\ cOut[Len(cOut)].cycler = 1

----------------------------------------------------------------------------
(* createCounter(), closures.md.  Every call of createCounter makes a      *)
(* closure with a `count` of its own; the model keeps two side by side.    *)

MaxCounterCalls == 7

Counters == {1, 2}

\* const counter = createCounter(), for every counter
InitCounter ==
    /\ count = [c \in Counters |-> 0]
    /\ kOut = <<>>

\* faulty variant: `return count++`, the value before the increment
CounterReturnsOld(cnt) ==
    [count |-> cnt + 1, returns |-> cnt]

\* the returned function: count++; return count;
Counter(cnt) ==
    [count |-> cnt + 1, returns |-> cnt + 1]

\* counter()
CounterCall(c) ==
    /\ Len(kOut) < MaxCounterCalls
    /\ LET r == Counter(count[c]) IN
        /\ count' = [count EXCEPT ![c] = r.count]
        /\ kOut' = Append(kOut, [counter |-> c, value |-> r.returns])
    /\ OnlyCounter

NextCounter == \E c \in Counters : CounterCall(c)

\* the values counter c has returned so far, in order
Counted(c) ==
    LET Mine(e) == e.counter = c
        mine == SelectSeq(kOut, Mine)
    IN [k \in 1..Len(mine) |-> mine[k].value]

\* C12: the n-th call of a counter returns n (1, 2, 3, ...), whatever calls
\* the other counter got in between: each counter keeps its own count.
C12_CountsCalls ==
    \A c \in Counters :
        /\ count[c] = Len(Counted(c))
        /\ \A n \in 1..Len(Counted(c)) : Counted(c)[n] = n

\* counter 1 returned 1, 2, 3 with two calls of counter 2 in between
C12_Witness ==
    /\ Counted(1) = <<1, 2, 3>>
    /\ Counted(2) = <<1, 2>>
    /\ kOut[1].counter = 1
    /\ kOut[2].counter = 2
    /\ kOut[Len(kOut)].counter = 1

----------------------------------------------------------------------------
(* setCancellableInterval(callback, delay, ...args), README.md.  The host  *)
(* keeps the active intervals and runs an interval's callback when its     *)
(* time has come, before the clock moves on; the interval is then due      *)
(* again one delay later.  In the usage example callback is `i++`, so i    *)
(* is the number of invocations of callback.                               *)

MaxIntervalTime == 30
MaxCancelCalls == 2

IntervalDelays == {5, 10}
IntervalArgs == {<<>>, <<Val(1)>>}

\* the id setInterval returned to setCancellableInterval
IntervalId == 1

\* setInterval(callback, delay, ...args) at time now
SetInterval(active, id, delay, args, now) ==
    active \cup {[id |-> id, due |-> now + delay, delay |-> delay,
                  args |-> args]}

\* clearInterval(id): an id that is not active is ignored
ClearInterval(active, id) ==
    {t \in active : t.id # id}

\* const cancel = setCancellableInterval(callback, delay, ...args), t = 0
InitInterval ==
    /\ iDelay \in IntervalDelays
    /\ iArgs \in IntervalArgs
    /\ iNow = 0
    /\ intervals = SetInterval({}, IntervalId, iDelay, iArgs, 0)
    /\ cancels = <<>>
    /\ iFn = <<>>

IdleInterval ==
    /\ iDelay = 10
    /\ iArgs = <<>>
    /\ iNow = 0
    /\ intervals = SetInterval({}, IntervalId, 10, <<>>, 0)
    /\ cancels = <<>>
    /\ iFn = <<>>

\* faulty variant: cancel clears another id than the one setInterval gave
CancelOtherId(active, id) ==
    ClearInterval(active, id + 1)

\* function cancel() { clearInterval(id); }
Cancel(active, id) ==
    ClearInterval(active, id)

\* cancel()
CancelCall ==
    /\ Len(cancels) < MaxCancelCalls
    /\ intervals' = Cancel(intervals, IntervalId)
    /\ cancels' = Append(cancels, iNow)
    /\ UNCHANGED <<iDelay, iArgs, iNow, iFn>>
    /\ OnlyInterval

\* the host runs the callback of an interval that is due
IntervalFires ==
    /\ \E t \in intervals :
        /\ t.due <= iNow
        /\ iFn' = Append(iFn, [time |-> iNow, args |-> t.args])
        /\ intervals' = (intervals \ {t})
                            \cup {[t EXCEPT !.due = t.due + t.delay]}
    /\ UNCHANGED <<iDelay, iArgs, iNow, cancels>>
    /\ OnlyInterval

\* time passes, once nothing is due
IntervalTick ==
    /\ iNow < MaxIntervalTime
    /\ \A t \in intervals : t.due > iNow
    /\ iNow' = iNow + 1
    /\ UNCHANGED <<iDelay, iArgs, intervals, cancels, iFn>>
    /\ OnlyInterval

NextInterval == CancelCall \/ IntervalFires \/ IntervalTick

\* an invocation of callback is due now and has not happened yet
IntervalDue == \E t \in intervals : t.due <= iNow

\* the number of whole delays that ended by time t
Elapsed(t) == t \div iDelay

\* C13: until cancel() is called callback is invoked once per elapsed
\* delay, with the arguments given; once cancel() was called, however
\* often, callback is never invoked again.
C13_CancelStops ==
    /\ [](/\ \A k \in 1..Len(iFn) :
                /\ iFn[k].time = k * iDelay
                /\ iFn[k].args = iArgs
          /\ cancels = <<>> =>
                Len(iFn) = Elapsed(iNow) - (IF IntervalDue THEN 1 ELSE 0)
          /\ cancels # <<>> =>
                /\ intervals = {}
                /\ Len(iFn) <= Elapsed(cancels[1])
                /\ Len(iFn) >= Elapsed(cancels[1]) - 1)
    /\ [][cancels # <<>> => iFn' = iFn]_vars

\* the documented run: delay 10, i is 2 at t = 20, cancel() at t = 25 (and
\* once more), and at t = 30 i is still 2
C13_Witness ==
    /\ iDelay = 10
    /\ cancels = <<25, 25>>
    /\ iNow = 30
    /\ Len(iFn) = 2
    /\ iFn[2].time = 20

----------------------------------------------------------------------------
(* sleep(duration), README.md, in the program of the usage example: the    *)
(* script sets the 'Tick' interval, then calls greeting().  The host runs  *)
(* one task at a time: the script, then the callbacks of the timers in the *)
(* order they fall due, and after every task the microtasks it queued.     *)
(* Two timers due at the same instant run in an order the host chooses:    *)
(* the fourth run of the interval was armed at t = 1500, after the         *)
(* setTimeout of sleep, and hosts differ on which of the two goes first.   *)

TickPeriod == 500
DocumentedDuration == 2000
MaxDurationSteps == 10
MaxSleepTime == 3000

\* the durations of the model: 0, 250, 500, ...
SleepDurations == {k * (TickPeriod \div 2) : k \in 0..MaxDurationSteps}

InitSleep ==
    /\ sDuration \in SleepDurations
    /\ sNow = 0
    /\ sTimers = {}
    /\ sPromise = "none"
    /\ sJobs = <<>>
    /\ greeting = "notCalled"
    /\ sLog = <<>>

IdleSleep ==
    /\ sDuration = DocumentedDuration
    /\ sNow = 0
    /\ sTimers = {}
    /\ sPromise = "none"
    /\ sJobs = <<>>
    /\ greeting = "notCalled"
    /\ sLog = <<>>

\* setTimeout(callback, delay) / setInterval(callback, delay) at time now
AddTimer(timers, id, callback, delay, repeat, now) ==
    timers \cup {[id |-> id, callback |-> callback, due |-> now + delay,
                  repeat |-> repeat]}

ConsoleLog(log, now, text) == Append(log, [time |-> now, text |-> text])

\* faulty variant: the synchronous version, a loop that keeps the thread
\* until the duration is over
SleepBusyWaits(timers, duration, now) ==
    [timers |-> timers, now |-> now + duration, promise |-> "fulfilled",
     jobs |-> <<"adopt">>]

\* sleep(duration): new Promise((resolve) => setTimeout(resolve, duration))
Sleep(timers, duration, now) ==
    [timers |-> AddTimer(timers, 2, "resolve", duration, 0, now),
     now |-> now, promise |-> "pending", jobs |-> <<>>]

\* the script: setInterval(..., 500); greeting(), which runs up to its await
RunScript ==
    /\ greeting = "notCalled"
    /\ LET ticking == AddTimer(sTimers, 1, "tick", TickPeriod, TickPeriod,
                               sNow)
           hello == ConsoleLog(sLog, sNow, "Hello!")
           s == Sleep(ticking, sDuration, sNow)
       IN /\ sTimers' = s.timers
          /\ sNow' = s.now
          /\ sPromise' = s.promise
          /\ sJobs' = s.jobs
          /\ sLog' = hello
    /\ greeting' = "awaiting"
    /\ UNCHANGED sDuration
    /\ OnlySleep

\* no task is running and no microtask is left
HostIdle == greeting # "notCalled" /\ sJobs = <<>>

\* the host runs the callback of a timer that is due; the earliest first
TimerFires ==
    /\ HostIdle
    /\ \E t \in sTimers :
        /\ t.due <= sNow
        /\ \A u \in sTimers : t.due <= u.due
        /\ sTimers' = IF t.repeat > 0
                        THEN (sTimers \ {t})
                               \cup {[t EXCEPT !.due = t.due + t.repeat]}
                        ELSE sTimers \ {t}
        /\ IF t.callback = "tick"
             THEN /\ sLog' = ConsoleLog(sLog, sNow, "Tick")
                  /\ UNCHANGED <<sPromise, sJobs>>
             ELSE /\ sPromise' = "fulfilled"
                  /\ sJobs' = Append(sJobs, "adopt")
                  /\ UNCHANGED sLog
    /\ UNCHANGED <<sDuration, sNow, greeting>>
    /\ OnlySleep

\* a microtask: the promise of the async function sleep takes the outcome
\* of the promise it returned, then greeting goes on after its await
RunJob ==
    /\ sJobs # <<>>
    /\ IF Head(sJobs) = "adopt"
         THEN /\ sJobs' = Append(Tail(sJobs), "resume")
              /\ UNCHANGED <<sLog, greeting>>
         ELSE /\ sJobs' = Tail(sJobs)
              /\ sLog' = ConsoleLog(sLog, sNow, "Bye.")
              /\ greeting' = "done"
    /\ UNCHANGED <<sDuration, sNow, sTimers, sPromise>>
    /\ OnlySleep

\* time passes up to the next timer, once nothing is due
SleepClock ==
    /\ HostIdle
    /\ \A t \in sTimers : t.due > sNow
    /\ \E t \in sTimers :
        /\ \A u \in sTimers : t.due <= u.due
        /\ t.due <= MaxSleepTime
        /\ sNow' = t.due
    /\ UNCHANGED <<sDuration, sTimers, sPromise, sJobs, greeting, sLog>>
    /\ OnlySleep

NextSleep == RunScript \/ TimerFires \/ RunJob \/ SleepClock

\* the number of 'Tick' lines among the first k lines of the log
TicksIn(k) == Cardinality({j \in 1..k : sLog[j].text = "Tick"})

\* a timer is due now and its callback has not run yet
TimerDue == \E t \in sTimers : t.due <= sNow

\* 'Hello!' is the first line, at t = 0, and while greeting is suspended
\* the interval has run once for every period that has passed
TicksWhileSuspended ==
    /\ sLog # <<>> => sLog[1] = [time |-> 0, text |-> "Hello!"]
    /\ (HostIdle /\ ~TimerDue) => TicksIn(Len(sLog)) = sNow \div TickPeriod
    /\ \A k \in 1..Len(sLog) :
          sLog[k].text = "Bye." =>
              /\ sPromise = "fulfilled"
              /\ sLog[k].time = sDuration

----------------------------------------------------------------------------
(* useAsync(asyncFn, deps, immediate), README.md 6.1.  The component       *)
(* renders, its effects run (mount), and later it unmounts, which runs     *)
(* the cleanup of the first effect.  execute and retry are handed to the   *)
(* caller, who may call them at any time, also after the unmount.          *)
(* asyncFn returns a promise or null; a promise settles at any later time. *)

MaxExecutions == 3

AsyncResult == Val(1)
AsyncError == Val(2)

Loading == [loading |-> TRUE, error |-> Null, value |-> Null]
Succeeded(result) == [loading |-> FALSE, error |-> Null, value |-> result]
Failed(err) == [loading |-> FALSE, error |-> err, value |-> Null]

\* the state after the first render, before the effects ran
InitUseAsync ==
    /\ immediate \in BOOLEAN
    /\ lifecycle = "rendered"
    /\ mounted = TRUE
    /\ controller = "null"
    /\ uState = [loading |-> FALSE, error |-> Null, value |-> Null]
    /\ inflight = {}
    /\ uNextId = 1
    /\ setStates = <<>>

IdleUseAsync ==
    /\ immediate = TRUE
    /\ lifecycle = "rendered"
    /\ mounted = TRUE
    /\ controller = "null"
    /\ uState = [loading |-> FALSE, error |-> Null, value |-> Null]
    /\ inflight = {}
    /\ uNextId = 1
    /\ setStates = <<>>

\* setState(s): React records the call; an unmounted component keeps the
\* state it had
SetState(s) ==
    /\ setStates' = Append(setStates,
                           [state |-> s, unmounted |-> lifecycle = "unmounted"])
    /\ uState' = IF lifecycle = "unmounted" THEN uState ELSE s

\* execute(), up to `await promise`; returnsPromise: what asyncFn() gave
Execute(returnsPromise) ==
    IF ~returnsPromise
      THEN UNCHANGED <<controller, uState, inflight, uNextId, setStates>>
      ELSE /\ SetState(Loading)
           /\ controller' = "{}"
           /\ inflight' = inflight \cup {uNextId}
           /\ uNextId' = uNextId + 1

\* the effects of the first commit: the cleanup is registered, and
\* `if (immediate) { execute(); }`
Mount ==
    /\ lifecycle = "rendered"
    /\ lifecycle' = "mounted"
    /\ \E returnsPromise \in BOOLEAN :
        IF immediate
          THEN Execute(returnsPromise)
          ELSE UNCHANGED <<controller, uState, inflight, uNextId, setStates>>
    /\ UNCHANGED <<immediate, mounted>>
    /\ OnlyUseAsync

\* the caller calls execute() or retry(), which is `() => execute()`
ExecuteCall ==
    /\ lifecycle # "rendered"
    /\ uNextId <= MaxExecutions
    /\ \E returnsPromise \in BOOLEAN : Execute(returnsPromise)
    /\ UNCHANGED <<immediate, lifecycle, mounted>>
    /\ OnlyUseAsync

\* the awaited promise fulfils: execute goes on after `await promise`
Fulfilled(e) ==
    /\ e \in inflight
    /\ inflight' = inflight \ {e}
    /\ IF ~mounted
         THEN UNCHANGED <<uState, setStates>>
         ELSE SetState(Succeeded(AsyncResult))
    /\ UNCHANGED <<immediate, lifecycle, mounted, controller, uNextId>>
    /\ OnlyUseAsync

\* the awaited promise rejects: execute goes on in its catch block
Rejected(e) ==
    /\ e \in inflight
    /\ inflight' = inflight \ {e}
    /\ IF ~mounted
         THEN UNCHANGED <<uState, setStates>>
         ELSE SetState(Failed(AsyncError))
    /\ UNCHANGED <<immediate, lifecycle, mounted, controller, uNextId>>
    /\ OnlyUseAsync

\* the component unmounts: the cleanup sets mounted.current = false;
\* controller.current is null or {} and has no cancel to call
Unmount ==
    /\ lifecycle = "mounted"
    /\ lifecycle' = "unmounted"
    /\ mounted' = FALSE
    /\ UNCHANGED <<immediate, controller, uState, inflight, uNextId,
                   setStates>>
    /\ OnlyUseAsync

NextUseAsync ==
    \/ Mount
    \/ ExecuteCall
    \/ \E e \in 1..MaxExecutions : Fulfilled(e)
    \/ \E e \in 1..MaxExecutions : Rejected(e)
    \/ Unmount

\* the setState calls made after the unmount
AfterUnmount == {k \in 1..Len(setStates) : setStates[k].unmounted}

\* what does hold: after the unmount no execution that settles calls
\* setState; every call made then is the `loading: true` one of execute
OnlyLoadingAfterUnmount ==
    \A k \in AfterUnmount : setStates[k].state = Loading

\* C15: once the component has unmounted, setState is not called: not when
\* an execution in flight fulfils or rejects, and not by a call of execute
\* or retry made after the unmount.
C15_NoSetStateAfterUnmount ==
    AfterUnmount = {}

----------------------------------------------------------------------------
(* The chunk loop, README.md:                                              *)
(*   for(let i=0;i<array.length;i+=size) ans.push((array.slice(i, i+size)))*)
(* One step of the model is one turn of the loop.  size is whatever the    *)
(* caller passes, also 0 or a negative number; the model follows a loop    *)
(* for MaxChunkSteps turns at most.                                        *)

MaxChunkLen == 4
MaxChunkSize == 4
MaxChunkSteps == 6

ChunkVals == {Val(1), Val(2)}
ChunkArrays == UNION { [1..n -> ChunkVals] : n \in 0..MaxChunkLen }
ChunkSizes == (-1)..MaxChunkSize

\* let i = 0, with ans = [] before the loop
InitChunk ==
    /\ array \in ChunkArrays
    /\ size \in ChunkSizes
    /\ loopI = 0
    /\ ans = <<>>
    /\ chunkPc = "loop"

IdleChunk ==
    /\ array = <<>>
    /\ size = 1
    /\ loopI = 0
    /\ ans = <<>>
    /\ chunkPc = "loop"

\* Math.max and Math.min of two integers
MathMax(a, b) == IF a >= b THEN a ELSE b
MathMin(a, b) == IF a <= b THEN a ELSE b

\* the relative index of Array.prototype.slice: a negative one counts from
\* the end, and the result is clamped to 0..len
RelativeIndex(k, len) ==
    IF k < 0 THEN MathMax(len + k, 0) ELSE MathMin(k, len)

\* arr.slice(from, to), indices counting from 0
ArraySlice(arr, from, to) ==
    SubSeq(arr, RelativeIndex(from, Len(arr)) + 1,
                RelativeIndex(to, Len(arr)))

\* faulty variant: array.slice(i, size), the size taken for the end index
ChunkToSize(arr, from, n) == ArraySlice(arr, from, n)

\* array.slice(i, i+size)
Chunk(arr, from, n) == ArraySlice(arr, from, from + n)

\* one turn of the loop: the test holds, the body and i += size run
ChunkTurn ==
    /\ chunkPc = "loop"
    /\ loopI < Len(array)
    /\ Len(ans) < MaxChunkSteps
    /\ ans' = Append(ans, Chunk(array, loopI, size))
    /\ loopI' = loopI + size
    /\ UNCHANGED <<array, size, chunkPc>>
    /\ OnlyChunk

\* the test i<array.length fails: the loop is over
ChunkExit ==
    /\ chunkPc = "loop"
    /\ ~(loopI < Len(array))
    /\ chunkPc' = "done"
    /\ UNCHANGED <<array, size, loopI, ans>>
    /\ OnlyChunk

NextChunk == ChunkTurn \/ ChunkExit

\* the chunks put one after the other
RECURSIVE Flatten(_)
Flatten(chunks) ==
    IF chunks = <<>> THEN <<>>
    ELSE Head(chunks) \o Flatten(Tail(chunks))

\* C16: for every array and every size >= 1 the chunks of the finished
\* loop, put one after the other, are the array; every chunk but the last
\* has exactly size elements, the last has 1..size, and the empty array
\* gives no chunk.  (While the loop runs the chunks are the array up to i.)
C16_ChunksOfSize ==
    size >= 1 =>
        /\ Flatten(ans) = SubSeq(array, 1, MathMin(loopI, Len(array)))
        /\ \A k \in 1..(Len(ans) - 1) : Len(ans[k]) = size
        /\ chunkPc = "done" =>
              /\ Flatten(ans) = array
              /\ ans # <<>> => Len(ans[Len(ans)]) \in 1..size
              /\ array = <<>> => ans = <<>>

\* a finished loop over three elements with size 2: a full chunk and a
\* last one that is shorter
C16_Witness ==
    /\ chunkPc = "done"
    /\ size = 2
    /\ array = <<Val(1), Val(2), Val(1)>>
    /\ ans = <<<<Val(1), Val(2)>>, <<Val(1)>>>>

\* what is left of the array beyond i: the loop goes on while it is > 0
Remaining(k) == Len(array) - k

\* what does hold: the loop ends within array.length turns when size >= 1,
\* and at once when the array is empty
EndsForPositiveSize ==
    /\ [](size >= 1 => Len(ans) <= Len(array))
    /\ [](array = <<>> => ans = <<>>)
    /\ [][(size >= 1 /\ ans' # ans)
             => Remaining(loopI') < Remaining(loopI)]_vars

\* C22: the loop terminates for every array and every size, 0 and negative
\* sizes included.  i only changes by size and the test only reads i, so
\* the loop ends exactly when every turn brings i closer to array.length;
\* it then takes no more turns than the array has elements.
C22_LoopTerminates ==
    /\ [](Len(ans) <= Len(array))
    /\ [][ans' # ans => Remaining(loopI') < Remaining(loopI)]_vars

----------------------------------------------------------------------------
(* The handling of negative start and end indices, README.md 96-101.       *)

MaxSz == 3
MaxIndex == 5

Sizes == 0..MaxSz
Indices == (-MaxIndex)..MaxIndex

InitIndex ==
    /\ sz \in Sizes
    /\ start \in Indices
    /\ end \in Indices
    /\ given = [start |-> start, end |-> end]
    /\ indexPc = "given"

IdleIndex ==
    /\ sz = 0
    /\ start = 0
    /\ end = 0
    /\ given = [start |-> 0, end |-> 0]
    /\ indexPc = "given"

\* faulty variant: `if (end < 0) end = sz + end;` without Math.max
NormaliseEndUnfloored(n, s, e) ==
    LET s1 == IF s < 0 THEN MathMax(n + s, 0) ELSE s
        e1 == IF e < 0 THEN n + e ELSE e
    IN [start |-> MathMax(s1, 0), end |-> MathMin(e1, n)]

\* the four assignments, in order
Normalise(n, s, e) ==
    LET s1 == IF s < 0 THEN MathMax(n + s, 0) ELSE s
        e1 == IF e < 0 THEN MathMax(n + e, 0) ELSE e
    IN [start |-> MathMax(s1, 0), end |-> MathMin(e1, n)]

NormaliseIndices ==
    /\ indexPc = "given"
    /\ LET r == Normalise(sz, start, end) IN
        /\ start' = r.start
        /\ end' = r.end
    /\ indexPc' = "normalised"
    /\ UNCHANGED <<sz, given>>
    /\ OnlyIndex

NextIndex == NormaliseIndices

\* what counting from the end makes of a negative index
FromEnd(k) == IF sz + k >= 0 THEN sz + k ELSE 0

C17_WitnessBeyond ==
    /\ indexPc = "normalised"
    /\ sz = 3
    /\ given.start = 5
    /\ start = 5

----------------------------------------------------------------------------
(* App, TableWithDynamicDimensions.tsx.  The state starts as the number 0; *)
(* a change event stores e.target.value, which is a string: the text of a  *)
(* number, or '' when the field is empty.  Array.from({ length }) converts *)
(* it with ToLength and `rows * col` with ToNumber.  The model keeps to    *)
(* whole numbers; a step is one change event with the render it causes.    *)

MaxDim == 8

\* e.target.value: the decimal text of the whole number n, and ''
Digits(n) == <<"digits", n>>
EmptyText == <<"empty", 0>>
InputValues == {EmptyText} \cup {Digits(n) : n \in (-1)..MaxDim}

\* ToNumber of a number or of the value of a number input ('' gives 0)
ToNumber(v) == IF v = EmptyText THEN 0 ELSE v[2]

\* ToLength: what Array.from makes of { length: v }
ToLength(v) == MathMax(ToNumber(v), 0)

\* faulty variant: numbered along the rows, cols * row + (col + 1)
CellRowMajor(r, c, row, col) == ToNumber(c) * row + (col + 1)

\* {rows * col + (row + 1)}, with the state rows = r, cols = c
Cell(r, c, row, col) == ToNumber(r) * col + (row + 1)

\* the <tr> elements the component returns; row and col count from 0
Render(r, c) ==
    [row1 \in 1..ToLength(r) |->
        [col1 \in 1..ToLength(c) |-> Cell(r, c, row1 - 1, col1 - 1)]]

\* useState(0), useState(0) and the first render
InitTable ==
    /\ rows = Num(0)
    /\ cols = Num(0)
    /\ table = Render(Num(0), Num(0))
    /\ typed = "none"

\* onChange of the first input: setRows(e.target.value)
TypeRows ==
    /\ \E v \in InputValues :
        /\ rows' = v
        /\ table' = Render(v, cols)
    /\ typed' = "rows"
    /\ UNCHANGED cols
    /\ OnlyTable

\* onChange of the second input: setCols(e.target.value)
TypeCols ==
    /\ \E v \in InputValues :
        /\ cols' = v
        /\ table' = Render(rows, v)
    /\ typed' = "cols"
    /\ UNCHANGED rows
    /\ OnlyTable

NextTable == TypeRows \/ TypeCols

\* a whole number >= 0 was entered in the input
Entered(v) == v[1] = "digits" /\ v[2] >= 0

\* the cells of the rendered table, as (row, col) counting from 0
CellsOfTable ==
    {rc \in (0..(Len(table) - 1)) \X (0..MaxDim) : rc[2] < Len(table[rc[1] + 1])}
Shown(rc) == table[rc[1] + 1][rc[2] + 1]

\* C21: with rows = R and cols = C entered the table has R rows of C
\* cells, the cell at (row, col), counted from 0, shows R * col + row + 1,
\* so every number of 1..R*C is in exactly one cell, numbered down the
\* columns; a change of one input leaves the other dimension as it was.
C21_NumberedDownColumns ==
    /\ []((Entered(rows) /\ Entered(cols)) =>
            LET R == rows[2]
                C == cols[2]
            IN /\ Len(table) = R
               /\ \A row \in 0..(R - 1) :
                    /\ Len(table[row + 1]) = C
                    /\ \A col \in 0..(C - 1) :
                          table[row + 1][col + 1] = R * col + row + 1
               /\ \A n \in 1..(R * C) :
                    Cardinality({rc \in CellsOfTable : Shown(rc) = n}) = 1
               /\ \A rc \in CellsOfTable : Shown(rc) \in 1..(R * C))
    /\ [][/\ typed' = "rows" => cols' = cols
          /\ typed' = "cols" => rows' = rows]_vars

\* rows = 2 was typed after cols = 3: two rows of three cells, 1 and 2 in
\* the first column
C21_Witness ==
    /\ rows = Digits(2)
    /\ cols = Digits(3)
    /\ typed = "rows"
    /\ table = <<<<1, 3, 5>>, <<2, 4, 6>>>>

----------------------------------------------------------------------------
(* The specifications: one snippet runs, the others stay as constructed.   *)

Init ==
    /\ InitPromise
    /\ InitOnce
    /\ IdleDebounce
    /\ IdleThrottle
    /\ InitMemoize
    /\ IdleCycle
    /\ InitCounter
    /\ IdleInterval
    /\ IdleSleep
    /\ IdleUseAsync
    /\ IdleChunk
    /\ IdleIndex
    /\ InitTable

SpecPromise == Init /\ [][NextPromise]_vars

SpecOnce == Init /\ [][NextOnce]_vars

\* debounce(fn, delay) with any delay of the model
DebounceStart ==
    InitPromise /\ InitOnce /\ InitDebounce /\
    IdleThrottle /\ InitMemoize /\ IdleCycle /\ InitCounter /\
    IdleInterval /\ IdleSleep /\ IdleUseAsync /\ IdleChunk /\ IdleIndex /\
    InitTable

SpecDebounce == DebounceStart /\ [][NextDebounce]_vars

\* throttle(fn, delay) with any delay and any starting clock of the model
ThrottleStart ==
    InitPromise /\ InitOnce /\ IdleDebounce /\
    InitThrottle /\ InitMemoize /\ IdleCycle /\ InitCounter /\
    IdleInterval /\ IdleSleep /\ IdleUseAsync /\ IdleChunk /\ IdleIndex /\
    InitTable

SpecThrottle == ThrottleStart /\ [][NextThrottle]_vars

SpecMemoize == Init /\ [][NextMemoize]_vars

\* two cyclers over any argument lists of the model
CycleStart ==
    InitPromise /\ InitOnce /\ IdleDebounce /\
    IdleThrottle /\ InitMemoize /\ InitCycle /\ InitCounter /\
    IdleInterval /\ IdleSleep /\ IdleUseAsync /\ IdleChunk /\ IdleIndex /\
    InitTable

SpecCycle == CycleStart /\ [][NextCycle]_vars

SpecCounter == Init /\ [][NextCounter]_vars

\* setCancellableInterval(callback, delay, ...args) at t = 0
IntervalStart ==
    InitPromise /\ InitOnce /\ IdleDebounce /\
    IdleThrottle /\ InitMemoize /\ IdleCycle /\ InitCounter /\
    InitInterval /\ IdleSleep /\ IdleUseAsync /\ IdleChunk /\ IdleIndex /\
    InitTable

SpecInterval == IntervalStart /\ [][NextInterval]_vars

\* the usage example of sleep, with any duration of the model
SleepStart ==
    InitPromise /\ InitOnce /\ IdleDebounce /\
    IdleThrottle /\ InitMemoize /\ IdleCycle /\ InitCounter /\
    IdleInterval /\ InitSleep /\ IdleUseAsync /\ IdleChunk /\ IdleIndex /\
    InitTable

SpecSleep == SleepStart /\ [][NextSleep]_vars

\* a component that uses useAsync, with either value of immediate
UseAsyncStart ==
    InitPromise /\ InitOnce /\ IdleDebounce /\
    IdleThrottle /\ InitMemoize /\ IdleCycle /\ InitCounter /\
    IdleInterval /\ IdleSleep /\ InitUseAsync /\ IdleChunk /\ IdleIndex /\
    InitTable

SpecUseAsync == UseAsyncStart /\ [][NextUseAsync]_vars

\* the chunk loop over any array and any size of the model
ChunkStart ==
    InitPromise /\ InitOnce /\ IdleDebounce /\
    IdleThrottle /\ InitMemoize /\ IdleCycle /\ InitCounter /\
    IdleInterval /\ IdleSleep /\ IdleUseAsync /\ InitChunk /\ IdleIndex /\
    InitTable

SpecChunk == ChunkStart /\ [][NextChunk]_vars

\* any size, start and end of the model
IndexStart ==
    InitPromise /\ InitOnce /\ IdleDebounce /\
    IdleThrottle /\ InitMemoize /\ IdleCycle /\ InitCounter /\
    IdleInterval /\ IdleSleep /\ IdleUseAsync /\ IdleChunk /\ InitIndex /\
    InitTable

SpecIndex == IndexStart /\ [][NextIndex]_vars

SpecTable == Init /\ [][NextTable]_vars

====
